---- MODULE Spec2Model ----
(***************************************************************************)
(* Model of the scripts of sandstone-work.  scripts/template.ts: the        *)
(* version key parser (parseVersion), the version comparator               *)
(* (compareVersions), the branch selector (findLatestBranch) and the       *)
(* driver dev().  scripts/link.ts: link and unlink.  The legacy link       *)
(* script and scripts/unlink-local.ts.                                     *)
(*                                                                         *)
(* Strings are sequences of tokens.  A token is either one of the two      *)
(* separators the code splits on, "." and "-", or a maximal run of other   *)
(* characters ("1", "10", "alpha", "pack", ...).  No two non-separator     *)
(* tokens are adjacent, so String.split, String.startsWith and the         *)
(* pre-release regular expression act on tokens exactly as they act on     *)
(* the characters.                                                         *)
(*                                                                         *)
(* JavaScript numbers are records [k, v]: k is "fin" (the integer v),      *)
(* "inf" (Infinity), "ninf" (-Infinity) or "nan" (NaN).                    *)
(***************************************************************************)
EXTENDS Integers, Sequences, FiniteSets, TLC

VARIABLES a, b, pc, key, cmp, branches, prefix, latest

\* scripts/link.ts, the legacy link script and scripts/unlink-local.ts: the two
\* package.json files, the .link-original.json snapshots, the build outputs on disk,
\* and what the runs did
VARIABLES cliPkg, templatePkg, cliOriginalFile, templateOriginalFile, built,
          original, history, run

\* dev() of scripts/template.ts: the command line, the sandstone-template checkout
\* (whether it exists, its remote-tracking branches as `git branch -r` prints them,
\* its current branch, its bun.lock and node_modules), dev's position and locals,
\* the commands it ran with their exit codes, and how the process ended
VARIABLES argv, templateDirExists, remote, checkedOut, bunLock, nodeModules, position, type,
          targetBranch, currentBranch, commands, exitCode, printedReady

versionVars == <<a, b, pc, key, cmp, branches, prefix, latest>>

packageVars ==
  <<cliPkg, templatePkg, cliOriginalFile, templateOriginalFile, built, original,
    history, run>>

devVars ==
  <<argv, templateDirExists, remote, checkedOut, bunLock, nodeModules, position, type,
    targetBranch, currentBranch, commands, exitCode, printedReady>>

vars == <<versionVars, packageVars, devVars>>

----------------------------------------------------------------------------
(* JavaScript numbers *)

Fin(n) == [k |-> "fin", v |-> n]
Infinity == [k |-> "inf", v |-> 0]
NegInfinity == [k |-> "ninf", v |-> 0]
NaN == [k |-> "nan", v |-> 0]

\* x - y on JavaScript numbers (IEEE 754: NaN absorbs, Infinity - Infinity is NaN)
JSSub(x, y) ==
  IF x.k = "nan" \/ y.k = "nan" THEN NaN
  ELSE IF x.k = "fin" /\ y.k = "fin" THEN Fin(x.v - y.v)
  ELSE IF x.k = y.k THEN NaN
  ELSE IF x.k = "inf" \/ y.k = "ninf" THEN Infinity
  ELSE NegInfinity

\* faulty variant: the difference is tested instead of the operands (Infinity - Infinity is NaN, not 0)
DiffersBySubtraction(x, y) == JSSub(x, y) # Fin(0)

\* faulty variant: `>` written for `!==`
DiffersOnlyWhenGreater(x, y) ==
  /\ x.k # "nan" /\ y.k # "nan"
  /\ \/ x.k = "inf" /\ y.k # "inf"
     \/ x.k = "fin" /\ y.k = "ninf"
     \/ x.k = "fin" /\ y.k = "fin" /\ x.v > y.v

\* x !== y on JavaScript numbers (NaN !== NaN is true)
StrictNotEqual(x, y) == x.k = "nan" \/ y.k = "nan" \/ x # y

IsNegative(x) == x.k = "ninf" \/ (x.k = "fin" /\ x.v < 0)
IsPositive(x) == x.k = "inf" \/ (x.k = "fin" /\ x.v > 0)
IsZero(x) == x.k = "fin" /\ x.v = 0
IsNaN(x) == x.k = "nan"

----------------------------------------------------------------------------
(* Strings *)

\* the decimal literals among the tokens, with the value Number() gives them
DigitValue ==
  ("0" :> 0) @@ ("1" :> 1) @@ ("2" :> 2) @@ ("3" :> 3) @@ ("5" :> 5)
  @@ ("9" :> 9) @@ ("10" :> 10)

\* index of the first occurrence of token sep in s, 0 when there is none
IndexOf(s, sep) ==
  IF \E i \in 1..Len(s) : s[i] = sep
  THEN CHOOSE i \in 1..Len(s) : s[i] = sep /\ \A j \in 1..(i - 1) : s[j] # sep
  ELSE 0

\* String.prototype.split(sep): every piece between separators, at least one piece
RECURSIVE Split(_, _)
Split(s, sep) ==
  LET i == IndexOf(s, sep)
  IN IF i = 0 THEN <<s>>
     ELSE <<SubSeq(s, 1, i - 1)>> \o Split(SubSeq(s, i + 1, Len(s)), sep)

\* Number(piece) for a piece holding no separator
Number(piece) ==
  IF piece = <<>> THEN Fin(0)
  ELSE IF Len(piece) = 1 /\ piece[1] \in DOMAIN DigitValue THEN Fin(DigitValue[piece[1]])
  ELSE IF piece = <<"Infinity">> THEN Infinity
  ELSE NaN

\* String.prototype.startsWith
StartsWith(s, p) == Len(s) >= Len(p) /\ SubSeq(s, 1, Len(p)) = p

----------------------------------------------------------------------------
(* parseVersion *)

\* faulty variant: beta and rc swapped
prereleaseOrderSwapped == ("alpha" :> 0) @@ ("beta" :> 2) @@ ("rc" :> 1)

prereleaseOrder == ("alpha" :> 0) @@ ("beta" :> 1) @@ ("rc" :> 2)

\* prerelease.match(/^(alpha|beta|rc)\.(\d+)$/)
MatchesPrerelease(p) ==
  /\ Len(p) = 3
  /\ p[1] \in {"alpha", "beta", "rc"}
  /\ p[2] = "."
  /\ p[3] \in DOMAIN DigitValue

\* faulty variant: a release gets no sentinel larger than the pre-release components
ReleaseTailZero == <<Fin(0), Fin(0)>>

ReleaseTail == <<Infinity, Infinity>>

FallbackTail == <<Fin(-1), Fin(-1)>>

\* main.split('.').map(Number)
MainParts(main) ==
  LET pieces == Split(main, ".")
  IN [i \in 1..Len(pieces) |-> Number(pieces[i])]

parseVersion(version) ==
  LET pieces == Split(version, "-")
      main == pieces[1]
      prerelease == IF Len(pieces) >= 2 THEN pieces[2] ELSE <<>>
      mainParts == MainParts(main)
  IN IF Len(pieces) < 2 \/ prerelease = <<>>
     THEN mainParts \o ReleaseTail
     ELSE IF MatchesPrerelease(prerelease)
     THEN mainParts \o <<Fin(prereleaseOrder[prerelease[1]]), Number(<<prerelease[3]>>)>>
     ELSE mainParts \o FallbackTail

----------------------------------------------------------------------------
(* compareVersions *)

\* parts[i] ?? 0
PartOrZero(parts, i) == IF i <= Len(parts) THEN parts[i] ELSE Fin(0)

MaxOf(m, n) == IF m >= n THEN m ELSE n

RECURSIVE CompareLoop(_, _, _)
CompareLoop(partsA, partsB, i) ==
  IF i > MaxOf(Len(partsA), Len(partsB)) THEN Fin(0)
  ELSE LET partA == PartOrZero(partsA, i)
           partB == PartOrZero(partsB, i)
       IN IF StrictNotEqual(partA, partB)
          THEN JSSub(partA, partB)
          ELSE CompareLoop(partsA, partsB, i + 1)

compareVersions(x, y) == CompareLoop(parseVersion(x), parseVersion(y), 1)

----------------------------------------------------------------------------
(* findLatestBranch *)

MaxBranches == 4

Null == [isNull |-> TRUE, name |-> <<>>]
Some(name) == [isNull |-> FALSE, name |-> name]

\* faulty variant: the hyphen separator is left out of the prefix test
StartsWithPrefixOnly(branch, pfx) == StartsWith(branch, <<pfx>>)

\* b.startsWith(`${prefix}-`)
MatchesPrefix(branch, pfx) == StartsWith(branch, <<pfx, "-">>)

\* branches.filter(...): a new array, in the order of the input
FilterBranches(list, pfx) == SelectSeq(list, LAMBDA br : MatchesPrefix(br, pfx))

\* s.replace(pat, ''): the first occurrence of pat is removed
ReplaceFirst(s, pat) ==
  LET n == Len(pat)
      hits == {i \in 1..(Len(s) - n + 1) : SubSeq(s, i, i + n - 1) = pat}
  IN IF hits = {} THEN s
     ELSE LET i == CHOOSE h \in hits : \A g \in hits : h <= g
          IN SubSeq(s, 1, i - 1) \o SubSeq(s, i + n, Len(s))

VersionOf(branch, pfx) == ReplaceFirst(branch, <<pfx, "-">>)

\* faulty variant: the comparator's arguments are not swapped, which sorts ascending
SortComparatorAscending(x, y, pfx) == compareVersions(VersionOf(x, pfx), VersionOf(y, pfx))

\* the comparator handed to sort: compareVersions(versionB, versionA)
SortComparator(x, y, pfx) == compareVersions(VersionOf(y, pfx), VersionOf(x, pfx))

\* what Array.prototype.sort makes of the comparator's result: NaN counts as +0
SortSign(x, y, pfx) ==
  LET v == SortComparator(x, y, pfx)
  IN IF IsNegative(v) THEN -1 ELSE IF IsPositive(v) THEN 1 ELSE 0

\* the comparator is a consistent comparator for the elements of list (ECMAScript
\* Array.prototype.sort): only then is the sort order defined by the language
ConsistentComparator(list, pfx) ==
  LET S == {list[i] : i \in 1..Len(list)}
      signs == {<<x, y, SortSign(x, y, pfx)>> : x \in S, y \in S}
      notAfter == {<<t[1], t[2]>> : t \in {u \in signs : u[3] <= 0}}
  IN /\ \A t \in signs : <<t[2], t[1], 0 - t[3]>> \in signs
     /\ \A p, q \in notAfter : p[2] = q[1] => <<p[1], q[2]>> \in notAfter

\* x is put behind the last element that does not sort after it
InsertSorted(sorted, x, pfx) ==
  LET ks == {j \in 1..Len(sorted) : SortSign(sorted[j], x, pfx) <= 0}
      pos == IF ks = {} THEN 0 ELSE CHOOSE j \in ks : \A h \in ks : h <= j
  IN SubSeq(sorted, 1, pos) \o <<x>> \o SubSeq(sorted, pos + 1, Len(sorted))

\* the stable sort of list under the comparator
RECURSIVE StableSort(_, _)
StableSort(list, pfx) ==
  IF list = <<>> THEN <<>>
  ELSE InsertSorted(StableSort(SubSeq(list, 1, Len(list) - 1), pfx), list[Len(list)], pfx)

\* the elements filtered.sort(comparator) can leave at index 0: the head of the stable
\* sort when the comparator is consistent; when it is not, the order is
\* implementation-defined and any element can come first
SortedHeads(list, pfx) ==
  IF ConsistentComparator(list, pfx)
  THEN {StableSort(list, pfx)[1]}
  ELSE {list[i] : i \in 1..Len(list)}

\* faulty variant: sort is called on the caller's array, which it reorders in place
CallerListSortedInPlace(list, pfx) == StableSort(list, pfx)

\* the caller's array after the call: filter builds a new array and sort reorders
\* that new array in place, so the array passed in keeps its elements and order
CallerListAfterCall(list, pfx) == list

----------------------------------------------------------------------------
(* Inputs *)

\* parts joined by "."; the part "" is an empty component ("1..0")
RECURSIVE DotJoin(_)
DotJoin(parts) ==
  IF parts = <<>> THEN <<>>
  ELSE LET head == IF parts[1] = "" THEN <<>> ELSE <<parts[1]>>
       IN IF Len(parts) = 1 THEN head ELSE head \o <<".">> \o DotJoin(Tail(parts))

Mains ==
  { <<"1", "0", "0">>, <<"1", "1", "0">>, <<"2", "0", "0">>, <<"1", "2", "3">>,
    <<"1", "2", "3", "0">>, <<"1">>, <<"1", "", "0">>, <<"1", "Infinity", "Infinity">>,
    <<"main">> }

PrereleaseTails ==
  { <<>>,
    <<"-", "alpha", ".", "1">>, <<"-", "alpha", ".", "2">>, <<"-", "alpha", ".", "10">>,
    <<"-", "beta", ".", "2">>, <<"-", "rc", ".", "0">>, <<"-", "rc", ".", "1">>,
    <<"-", "unknown", ".", "5">>, <<"-", "alpha">>, <<"-", "rc", ".", "1", ".", "2">>,
    <<"-">>, <<"-", "rc", ".", "1", "-", "foo">> }

Versions == {DotJoin(m) \o t : m \in Mains, t \in PrereleaseTails}

TemplateType == {"pack", "library"}

BranchNames ==
  { <<"pack", "-", "1", ".", "0", ".", "0">>,
    <<"pack", "-", "1", ".", "1", ".", "0", "-", "beta", ".", "2">>,
    <<"pack", "-", "2", ".", "0", ".", "0", "-", "alpha", ".", "1">>,
    <<"lib", "-", "9", ".", "9", ".", "9">>,
    <<"pack", "-", "1", ".", "0", ".", "0", "-", "unknown", ".", "5">>,
    <<"pack", "-", "2", ".", "0", ".", "0", "-", "alpha", ".", "1", "-", "foo">>,
    <<"pack", "-", "main">>,
    <<"pack">>,
    <<"pack", ".", "3", ".", "0", ".", "0">>,
    <<"library", "-", "1", ".", "0", ".", "0">>,
    <<"library", "-", "1", ".", "0", ".", "0", "-", "rc", ".", "1">> }

\* the output of `git branch -r` names every branch once
BranchLists ==
  UNION { {l \in [1..n -> BranchNames] : \A i, j \in 1..n : l[i] = l[j] => i = j}
          : n \in 0..MaxBranches }

----------------------------------------------------------------------------
(* package.json dependency objects *)

\* A dependency specifier is a sequence of two tokens, the leading "file:" or "^" and
\* the rest; the empty sequence stands for a key the object does not have.
DependencyNames == {"sandstone", "sandstone-cli", "typescript"}

Absent == <<>>
FileSandstone == <<"file:", "../sandstone">>
FileSandstoneCli == <<"file:", "../sandstone-cli">>

\* `^${data.version}`
Caret(version) == <<"^", version>>

NoEntries == [n \in DependencyNames |-> Absent]

\* a dependencies object the package.json does not have
Undefined == [defined |-> FALSE, entries |-> NoEntries]

EmptyObject == [defined |-> TRUE, entries |-> NoEntries]

\* obj || {}
OrEmpty(obj) == IF obj.defined THEN obj ELSE EmptyObject

\* { ...obj }
Spread(obj) == IF obj.defined THEN obj ELSE EmptyObject

\* obj[name] = value
SetEntry(obj, name, value) == [obj EXCEPT !.entries[name] = value]

\* obj?.[name]?.startsWith('file:')
StartsWithFile(obj, name) == obj.defined /\ StartsWith(obj.entries[name], <<"file:">>)

\* the dependency objects a package.json can hold before a run
InitialObjects(name, fileValue) ==
  {Undefined} \cup
  { [defined |-> TRUE,
     entries |-> [n \in DependencyNames |->
                    IF n = name THEN v ELSE IF n = "typescript" THEN t ELSE Absent]]
    : v \in {Absent, Caret("0.14.0"), fileValue}, t \in {Absent, Caret("5.0.0")} }

NoSnapshot == [exists |-> FALSE, peerDependencies |-> Undefined,
               dependencies |-> Undefined, devDependencies |-> Undefined]

\* what a run did: the builds, package.json writes, node_modules removals and
\* `bun install` calls it made, and the versions the registry gave it
NoRun == [script |-> "none", outcome |-> "none", failedAt |-> "none", builds |-> {},
          writes |-> {}, removals |-> {}, installs |-> {}, fetched |-> <<>>]

MaxRuns == 2

\* the variables of dev() while the other scripts are checked
DevIdle ==
  /\ argv = {}
  /\ templateDirExists = FALSE
  /\ remote = <<>>
  /\ checkedOut = <<>>
  /\ bunLock = FALSE
  /\ nodeModules = FALSE
  /\ position = "idle"
  /\ type = "pack"
  /\ targetBranch = Null
  /\ currentBranch = Null
  /\ commands = <<>>
  /\ exitCode = 0
  /\ printedReady = FALSE

\* the variables of the package scripts while the version functions are checked
PackagesIdle ==
  /\ cliPkg = [peerDependencies |-> Undefined]
  /\ templatePkg = [dependencies |-> Undefined, devDependencies |-> Undefined]
  /\ cliOriginalFile = NoSnapshot
  /\ templateOriginalFile = NoSnapshot
  /\ built = {}
  /\ original = <<>>
  /\ history = <<>>
  /\ run = NoRun

\* the variables of the version functions while the package scripts are checked
VersionsIdle ==
  /\ a = <<>>
  /\ b = <<>>
  /\ pc = "ready"
  /\ key = <<>>
  /\ cmp = Fin(0)
  /\ branches = <<>>
  /\ prefix = "pack"
  /\ latest = Null

----------------------------------------------------------------------------
(* The comparator as a state machine: two version strings, parsed or compared *)

Init ==
  /\ a \in Versions
  /\ b \in Versions
  /\ pc = "ready"
  /\ key = <<>>
  /\ cmp = Fin(0)
  /\ branches = <<>>
  /\ prefix = "pack"
  /\ latest = Null
  /\ PackagesIdle
  /\ DevIdle

ParseVersion ==
  /\ pc = "ready"
  /\ key' = parseVersion(a)
  /\ pc' = "parsed"
  /\ UNCHANGED <<a, b, cmp, branches, prefix, latest>>
  /\ UNCHANGED <<packageVars, devVars>>

CompareVersions ==
  /\ pc = "ready"
  /\ cmp' = compareVersions(a, b)
  /\ pc' = "compared"
  /\ UNCHANGED <<a, b, key, branches, prefix, latest>>
  /\ UNCHANGED <<packageVars, devVars>>

Next == ParseVersion \/ CompareVersions

Spec == Init /\ [][Next]_vars

----------------------------------------------------------------------------
(* The selector as a state machine: a branch list and a prefix, then the call *)

InitSelect ==
  /\ branches \in BranchLists
  /\ prefix \in TemplateType
  /\ pc = "ready"
  /\ latest = Null
  /\ a = <<>>
  /\ b = <<>>
  /\ key = <<>>
  /\ cmp = Fin(0)
  /\ PackagesIdle
  /\ DevIdle

FindLatestBranch ==
  /\ pc = "ready"
  /\ LET filtered == FilterBranches(branches, prefix)
     IN IF Len(filtered) = 0
        THEN latest' = Null
        ELSE \E head \in SortedHeads(filtered, prefix) : latest' = Some(head)
  /\ branches' = CallerListAfterCall(branches, prefix)
  /\ pc' = "selected"
  /\ UNCHANGED <<a, b, key, cmp, prefix>>
  /\ UNCHANGED <<packageVars, devVars>>

NextSelect == FindLatestBranch

SpecSelect == InitSelect /\ [][NextSelect]_vars

----------------------------------------------------------------------------
(* Notions the properties are stated in *)

\* the text before the first "-" of a version string
MainText(s) == IF IndexOf(s, "-") = 0 THEN s ELSE SubSeq(s, 1, IndexOf(s, "-") - 1)

\* the text after the first "-" of a version string (only for strings holding one)
TextAfterFirstHyphen(s) == SubSeq(s, IndexOf(s, "-") + 1, Len(s))

HasNoPrerelease(s) == IndexOf(s, "-") = 0

Stages == <<"alpha", "beta", "rc">>

\* the text is STAGE.NUMBER
IsStageDotNumber(t) ==
  /\ Len(t) = 3
  /\ \E r \in 1..3 : t[1] = Stages[r]
  /\ t[2] = "."
  /\ t[3] \in DOMAIN DigitValue

StageRankOf(t) == (CHOOSE r \in 1..3 : t[1] = Stages[r]) - 1

\* the version is MAIN-STAGE.NUMBER
IsRecognizedPrerelease(s) == ~HasNoPrerelease(s) /\ IsStageDotNumber(TextAfterFirstHyphen(s))

\* the version has a pre-release part and it is not STAGE.NUMBER
IsMalformedPrerelease(s) ==
  /\ ~HasNoPrerelease(s)
  /\ TextAfterFirstHyphen(s) # <<>>
  /\ ~IsStageDotNumber(TextAfterFirstHyphen(s))

\* every component of the main part is a decimal literal (MAJOR.MINOR.PATCH and the like)
HasDecimalMain(s) ==
  LET pieces == Split(MainText(s), ".")
  IN \A i \in 1..Len(pieces) : Len(pieces[i]) = 1 /\ pieces[i][1] \in DOMAIN DigitValue

\* no component of the main part converts to NaN
HasNumericMain(s) ==
  LET parts == MainParts(MainText(s))
  IN \A i \in 1..Len(parts) : ~IsNaN(parts[i])

KeyTail(k) == SubSeq(k, Len(k) - 1, Len(k))

LessOrEqual(x, y) == LET r == compareVersions(x, y) IN IsNegative(r) \/ IsZero(r)

ExactlyOneOf(p, q, r) == (p /\ ~q /\ ~r) \/ (~p /\ q /\ ~r) \/ (~p /\ ~q /\ r)

NumericVersions == {v \in Versions : HasNumericMain(v)}

BranchSet == {branches[i] : i \in 1..Len(branches)}

\* the branch starts with "<prefix>-"
HasPrefixAndHyphen(br, pfx) == Len(br) >= 2 /\ br[1] = pfx /\ br[2] = "-"

\* the text after the "<prefix>-" separator
TextAfterSeparator(br) == SubSeq(br, 3, Len(br))

Candidates == {br \in BranchSet : HasPrefixAndHyphen(br, prefix)}

Pack100 == <<"pack", "-", "1", ".", "0", ".", "0">>
Pack110Beta2 == <<"pack", "-", "1", ".", "1", ".", "0", "-", "beta", ".", "2">>
Pack200Alpha1 == <<"pack", "-", "2", ".", "0", ".", "0", "-", "alpha", ".", "1">>
Lib999 == <<"lib", "-", "9", ".", "9", ".", "9">>

\* the returned branch is a candidate and no other candidate has a greater version
IsMaximumCandidate ==
  /\ ~latest.isNull
  /\ latest.name \in BranchSet
  /\ HasPrefixAndHyphen(latest.name, prefix)
  /\ \A c \in Candidates \ {latest.name} :
       LET r == compareVersions(TextAfterSeparator(latest.name), TextAfterSeparator(c))
       IN IsPositive(r) \/ IsZero(r)

ExampleSelectsPack200Alpha1 ==
  BranchSet = {Pack100, Pack110Beta2, Pack200Alpha1, Lib999} /\ prefix = "pack"
    => latest = Some(Pack200Alpha1)

----------------------------------------------------------------------------
(* C1 *)

\* C1 as stated: for every branch list with a branch starting with "<prefix>-", the
\* branch findLatestBranch returns is in the list, starts with "<prefix>-" and compares
\* >= 0 against every other such branch; the example list yields pack-2.0.0-alpha.1.
C1_MaximumForEveryList ==
  pc = "selected" /\ Candidates # {} => IsMaximumCandidate /\ ExampleSelectsPack200Alpha1

\* C1 amended: the same, for the lists whose branches starting with "<prefix>-" all have
\* a version whose main components convert to numbers (none is NaN).
C1_MaximumForNumericVersions ==
  pc = "selected" /\ Candidates # {}
    /\ (\A c \in Candidates : HasNumericMain(TextAfterSeparator(c)))
    => IsMaximumCandidate /\ ExampleSelectsPack200Alpha1

C1_Witness ==
  /\ pc = "selected"
  /\ branches = <<Pack100, Pack110Beta2, Pack200Alpha1, Lib999>>
  /\ prefix = "pack"
  /\ latest = Some(Pack200Alpha1)

----------------------------------------------------------------------------
(* C2 *)

\* y is an alpha.N, beta.N or rc.N pre-release of the release x
IsPrereleaseOf(y, x) == IsRecognizedPrerelease(y) /\ MainText(y) = x

\* C2: a version with decimal main components and no pre-release suffix gets a key
\* ending in the two 'infinite' sentinels, and compares strictly greater than every
\* alpha.N, beta.N and rc.N pre-release of the same main part.
C2_ReleaseOutranksPrereleases ==
  /\ pc = "parsed" /\ HasNoPrerelease(a) /\ HasDecimalMain(a)
       => KeyTail(key) = <<Infinity, Infinity>>
  /\ pc = "compared" /\ HasNoPrerelease(a) /\ HasDecimalMain(a) /\ IsPrereleaseOf(b, a)
       => IsPositive(cmp)

C2_Witness ==
  /\ pc = "compared"
  /\ a = <<"1", ".", "0", ".", "0">>
  /\ b = <<"1", ".", "0", ".", "0", "-", "rc", ".", "1">>
  /\ IsPositive(cmp)

----------------------------------------------------------------------------
(* C3 *)

PrereleaseNumberOf(s) == DigitValue[TextAfterFirstHyphen(s)[3]]

\* C3: two pre-releases of the same decimal main part are ordered by stage rank
\* (alpha < beta < rc) and, for equal stages, by the numeric value of the suffix
\* number, so alpha.2 is below alpha.10.
C3_StageThenNumber ==
  pc = "compared" /\ IsRecognizedPrerelease(a) /\ IsRecognizedPrerelease(b)
    /\ MainText(a) = MainText(b) /\ HasDecimalMain(a)
    => LET ra == StageRankOf(TextAfterFirstHyphen(a))
           rb == StageRankOf(TextAfterFirstHyphen(b))
           na == PrereleaseNumberOf(a)
           nb == PrereleaseNumberOf(b)
       IN /\ ra < rb => IsNegative(cmp)
          /\ ra > rb => IsPositive(cmp)
          /\ ra = rb /\ na < nb => IsNegative(cmp)
          /\ ra = rb /\ na > nb => IsPositive(cmp)
          /\ ra = rb /\ na = nb => IsZero(cmp)

C3_Witness ==
  /\ pc = "compared"
  /\ a = <<"1", ".", "0", ".", "0", "-", "alpha", ".", "2">>
  /\ b = <<"1", ".", "0", ".", "0", "-", "alpha", ".", "10">>
  /\ IsNegative(cmp)

----------------------------------------------------------------------------
(* C4 *)

\* C4: findLatestBranch returns null exactly when no branch starts with "<prefix>-";
\* a branch equal to the prefix, or starting with it without the hyphen, or of another
\* prefix, is no match, and whatever is returned starts with "<prefix>-".
C4_NullIffNoCandidate ==
  pc = "selected"
    => /\ latest.isNull <=> Candidates = {}
       /\ ~latest.isNull => HasPrefixAndHyphen(latest.name, prefix)

C4_Witness ==
  /\ pc = "selected"
  /\ prefix = "pack"
  /\ {<<"pack">>, <<"pack", ".", "3", ".", "0", ".", "0">>, Lib999} \subseteq BranchSet
  /\ latest.isNull

----------------------------------------------------------------------------
(* C5 *)

\* the key tail C5 states for a version string
StatedTail(s) ==
  IF HasNoPrerelease(s) \/ TextAfterFirstHyphen(s) = <<>> THEN <<Infinity, Infinity>>
  ELSE IF IsStageDotNumber(TextAfterFirstHyphen(s))
  THEN <<Fin(StageRankOf(TextAfterFirstHyphen(s))), Fin(PrereleaseNumberOf(s))>>
  ELSE <<Fin(-1), Fin(-1)>>

\* C5: the pre-release part is everything after the first "-"; the key ends in the
\* 'infinite' pair without one, in (stage rank, NUMBER) when the whole part is
\* STAGE.NUMBER, and in (-1, -1) for every other part, such as rc.1-foo.
C5_SplitOnFirstHyphen == pc = "parsed" => KeyTail(key) = StatedTail(a)

----------------------------------------------------------------------------
(* C6 *)

\* C6: a version with a malformed pre-release part gets the key tail (-1, -1) and
\* compares strictly below every alpha/beta/rc pre-release and below the release of
\* the same decimal main part.
C6_MalformedRanksLowest ==
  /\ pc = "parsed" /\ IsMalformedPrerelease(a) /\ HasDecimalMain(a)
       => KeyTail(key) = <<Fin(-1), Fin(-1)>>
  /\ pc = "compared" /\ IsMalformedPrerelease(a) /\ HasDecimalMain(a)
       /\ MainText(b) = MainText(a) /\ (HasNoPrerelease(b) \/ IsRecognizedPrerelease(b))
       => IsNegative(cmp)

----------------------------------------------------------------------------
(* C7 *)

\* C7 as stated: for every string v, compareVersions(v, v) is 0.
C7_ReflexiveOnEveryString == pc = "compared" /\ a = b => IsZero(cmp)

\* C7 amended: for every version string whose main components all convert to numbers
\* (none is NaN), compareVersions(v, v) is 0.
C7_ReflexiveOnNumericMain == pc = "compared" /\ a = b /\ HasNumericMain(a) => IsZero(cmp)

C7_Witness ==
  /\ pc = "compared"
  /\ a = <<"1", ".", "0", ".", "0">>
  /\ b = a
  /\ IsZero(cmp)

----------------------------------------------------------------------------
(* C8 *)

\* C8: compareVersions(A, B) < 0 exactly when compareVersions(B, A) > 0, and
\* compareVersions(A, B) = 0 exactly when compareVersions(B, A) = 0.
C8_Antisymmetric ==
  pc = "compared"
    => /\ IsNegative(cmp) <=> IsPositive(compareVersions(b, a))
       /\ IsZero(cmp) <=> IsZero(compareVersions(b, a))

C8_Witness ==
  /\ pc = "compared"
  /\ a = <<"1", ".", "0", ".", "0", "-", "beta", ".", "2">>
  /\ b = <<"1", ".", "1", ".", "0">>
  /\ IsNegative(cmp)
  /\ IsPositive(compareVersions(b, a))

----------------------------------------------------------------------------
(* C9 *)

\* C9: "1.2.3" and "1.2.3.0" compare equal, the missing fourth component of "1.2.3"
\* counting as 0.
C9_ShorterMainPaddedWithZero ==
  pc = "compared" /\ a = <<"1", ".", "2", ".", "3">>
    /\ b = <<"1", ".", "2", ".", "3", ".", "0">>
    => IsZero(cmp)

----------------------------------------------------------------------------
(* C10 *)

----------------------------------------------------------------------------
(* C11 *)

----------------------------------------------------------------------------
(* The legacy link script and scripts/unlink-local.ts *)

InitPackages ==
  /\ cliPkg \in {[peerDependencies |-> p] : p \in InitialObjects("sandstone", FileSandstone)}
  /\ templatePkg \in
       {[dependencies |-> d, devDependencies |-> v] :
          d \in InitialObjects("sandstone", FileSandstone),
          v \in InitialObjects("sandstone-cli", FileSandstoneCli)}
  /\ built \in SUBSET {"sandstone", "sandstone-cli"}
  /\ original = [cli |-> cliPkg, template |-> templatePkg]
  /\ history = <<>>
  /\ run = NoRun
  /\ VersionsIdle
  /\ DevIdle

InitLegacy ==
  /\ InitPackages
  /\ cliOriginalFile = NoSnapshot
  /\ templateOriginalFile = NoSnapshot

\* what the history keeps of a run: the script, and the step that threw, if any
Ran(script, failAt) == [script |-> script, ok |-> failAt = "none", failedAt |-> failAt]

\* the steps at which a run of the legacy link script can throw
LegacyLinkFailures == {"none", "build", "cliInstall", "templateInstall"}

\* main of the legacy link script, up to the step that throws (failAt), if any
LegacyLink(failAt) ==
  /\ Len(history) < MaxRuns
  /\ \A i \in 1..Len(history) : history[i].script = "link"
  /\ LET cliSnapshot ==
           [NoSnapshot EXCEPT !.exists = TRUE,
                              !.peerDependencies = Spread(cliPkg.peerDependencies)]
         cliLinked ==
           [peerDependencies |->
              SetEntry(OrEmpty(cliPkg.peerDependencies), "sandstone", FileSandstone)]
         templateSnapshot ==
           [NoSnapshot EXCEPT !.exists = TRUE,
                              !.dependencies = Spread(templatePkg.dependencies),
                              !.devDependencies = Spread(templatePkg.devDependencies)]
         templateLinked ==
           [dependencies |->
              SetEntry(OrEmpty(templatePkg.dependencies), "sandstone", FileSandstone),
            devDependencies |->
              SetEntry(OrEmpty(templatePkg.devDependencies), "sandstone-cli",
                       FileSandstoneCli)]
     IN /\ built' = IF failAt = "build" THEN built ELSE built \cup {"sandstone"}
        /\ IF failAt = "build"
           THEN UNCHANGED <<cliPkg, cliOriginalFile>>
           ELSE cliPkg' = cliLinked /\ cliOriginalFile' = cliSnapshot
        /\ IF failAt \in {"build", "cliInstall"}
           THEN UNCHANGED <<templatePkg, templateOriginalFile>>
           ELSE templatePkg' = templateLinked /\ templateOriginalFile' = templateSnapshot
  /\ history' = Append(history, Ran("link", failAt))
  /\ run' = [NoRun EXCEPT !.script = "legacy-link",
                          !.outcome = IF failAt = "none" THEN "done" ELSE "failed"]
  /\ UNCHANGED <<original, versionVars, devVars>>

\* the steps at which a run of unlink-local.ts can throw
LegacyUnlinkFailures == {"none", "cliInstall", "templateInstall"}

\* main of unlink-local.ts, up to the step that throws (failAt), if any
LegacyUnlink(failAt) ==
  /\ history # <<>>
  /\ \A i \in 1..Len(history) : history[i].script = "link"
  /\ failAt = "cliInstall" => cliOriginalFile.exists
  /\ failAt = "templateInstall" => templateOriginalFile.exists
  /\ IF cliOriginalFile.exists
     THEN /\ cliPkg' = [cliPkg EXCEPT !.peerDependencies = cliOriginalFile.peerDependencies]
          /\ cliOriginalFile' = NoSnapshot
     ELSE UNCHANGED <<cliPkg, cliOriginalFile>>
  /\ IF templateOriginalFile.exists /\ failAt # "cliInstall"
     THEN /\ templatePkg' =
               [dependencies |-> templateOriginalFile.dependencies,
                devDependencies |-> templateOriginalFile.devDependencies]
          /\ templateOriginalFile' = NoSnapshot
     ELSE UNCHANGED <<templatePkg, templateOriginalFile>>
  /\ history' = Append(history, Ran("unlink", failAt))
  /\ run' = [NoRun EXCEPT !.script = "unlink-local",
                          !.outcome = IF failAt = "none" THEN "done" ELSE "failed"]
  /\ UNCHANGED <<built, original, versionVars, devVars>>

RunLegacyLink == \E failAt \in LegacyLinkFailures : LegacyLink(failAt)

RunLegacyUnlink == \E failAt \in LegacyUnlinkFailures : LegacyUnlink(failAt)

NextLegacy == RunLegacyLink \/ RunLegacyUnlink

SpecLegacy == InitLegacy /\ [][NextLegacy]_vars

----------------------------------------------------------------------------
(* C12 *)

\* the entries of the three dependency objects the scripts rewrite
DependencyEntries(cli, template) ==
  <<cli.peerDependencies.entries, template.dependencies.entries,
    template.devDependencies.entries>>

\* one or more completed link runs, then one completed run of unlink-local
LinkedThenUnlinked ==
  /\ Len(history) >= 2
  /\ \A i \in 1..Len(history) : history[i].ok
  /\ history[Len(history)].script = "unlink"

\* C12: after one or more runs of the legacy link script and one run of unlink-local
\* the three dependency objects hold their original entries and both
\* .link-original.json snapshots are gone.
C12_LinkUnlinkRoundTrip ==
  LinkedThenUnlinked
    => /\ DependencyEntries(cliPkg, templatePkg)
            = DependencyEntries(original.cli, original.template)
       /\ ~cliOriginalFile.exists
       /\ ~templateOriginalFile.exists

----------------------------------------------------------------------------
(* scripts/link.ts *)

\* faulty variant: link's test of the template with || between its two entries
LinkTemplateLinkedEither(template) ==
  \/ StartsWithFile(template.dependencies, "sandstone")
  \/ StartsWithFile(template.devDependencies, "sandstone-cli")

\* link: templateLinked
LinkTemplateLinked(template) ==
  /\ StartsWithFile(template.dependencies, "sandstone")
  /\ StartsWithFile(template.devDependencies, "sandstone-cli")

\* faulty variant: unlink's test of the template with && between its two entries
UnlinkTemplateLinkedBoth(template) ==
  /\ StartsWithFile(template.dependencies, "sandstone")
  /\ StartsWithFile(template.devDependencies, "sandstone-cli")

\* unlink: templateLinked
UnlinkTemplateLinked(template) ==
  \/ StartsWithFile(template.dependencies, "sandstone")
  \/ StartsWithFile(template.devDependencies, "sandstone-cli")

\* link and unlink: cliLinked
CliLinked(cli) == StartsWithFile(cli.peerDependencies, "sandstone")

\* faulty variant: the entry is overwritten whatever it holds
RestoreEntryAlways(obj, name, version) == SetEntry(OrEmpty(obj), name, version)

\* unlink: if (obj?.[name]?.startsWith('file:')) obj[name] = version
RestoreEntry(obj, name, version) ==
  IF StartsWithFile(obj, name) THEN SetEntry(obj, name, version) ELSE obj

\* the registry's answer to a lookup: a response that is not ok, or the latest version
NotOk == "not ok"
LatestVersion(packageName) == IF packageName = "sandstone" THEN "1.0.0" ELSE "2.0.0"
RegistryAnswers(packageName) == {NotOk, LatestVersion(packageName)}

Thrown == <<"thrown">>

getLatestNpmVersion(answer) == IF answer = NotOk THEN Thrown ELSE Caret(answer)

\* the steps of a run in the order the script takes them; "none" stands for the end
LinkSteps == <<"buildSandstone", "buildCli", "cliInstall", "templateInstall", "none">>
UnlinkSteps == <<"cliInstall", "templateInstall", "none">>

StepIndex(steps, step) == CHOOSE i \in 1..Len(steps) : steps[i] = step

\* the run reaches the step / gets past it, when failAt is the step that throws
Attempted(steps, failAt, step) == StepIndex(steps, failAt) >= StepIndex(steps, step)
Passed(steps, failAt, step) == StepIndex(steps, failAt) > StepIndex(steps, step)

Outcome(failAt) == IF failAt = "none" THEN "done" ELSE "failed"

InitLink ==
  /\ InitPackages
  /\ cliOriginalFile = NoSnapshot
  /\ templateOriginalFile = NoSnapshot

\* link(), up to the step that throws (failAt), if any
Link(failAt) ==
  /\ Len(history) < MaxRuns
  /\ IF CliLinked(cliPkg) /\ LinkTemplateLinked(templatePkg)
     THEN /\ failAt = "none"
          /\ run' = [NoRun EXCEPT !.script = "link", !.outcome = "already"]
          /\ UNCHANGED <<cliPkg, templatePkg, built>>
     ELSE LET at(step) == Attempted(LinkSteps, failAt, step)
              past(step) == Passed(LinkSteps, failAt, step)
              cliWritten ==
                [peerDependencies |->
                   SetEntry(OrEmpty(cliPkg.peerDependencies), "sandstone", FileSandstone)]
              templateWritten ==
                [dependencies |->
                   SetEntry(OrEmpty(templatePkg.dependencies), "sandstone", FileSandstone),
                 devDependencies |->
                   SetEntry(OrEmpty(templatePkg.devDependencies), "sandstone-cli",
                            FileSandstoneCli)]
          IN /\ failAt = "buildSandstone" => "sandstone" \notin built
             /\ failAt = "buildCli" => "sandstone-cli" \notin built
             /\ built' = built \cup {n \in {"sandstone"} : past("buildSandstone")}
                               \cup {n \in {"sandstone-cli"} : past("buildCli")}
             /\ cliPkg' = IF at("cliInstall") THEN cliWritten ELSE cliPkg
             /\ templatePkg' = IF at("templateInstall") THEN templateWritten ELSE templatePkg
             /\ run' =
                  [NoRun EXCEPT
                     !.script = "link",
                     !.outcome = Outcome(failAt),
                     !.failedAt = failAt,
                     !.builds = ({"sandstone", "sandstone-cli"} \ built)
                                  \cap ({"sandstone"} \cup
                                        {n \in {"sandstone-cli"} : at("buildCli")}),
                     !.writes = {n \in {"sandstone-cli"} : at("cliInstall")}
                                  \cup {n \in {"sandstone-template"} : at("templateInstall")},
                     !.removals =
                        {r \in {<<"sandstone-cli", "sandstone">>} : at("cliInstall")}
                          \cup {r \in {<<"sandstone-template", "sandstone">>,
                                       <<"sandstone-template", "sandstone-cli">>} :
                                  at("templateInstall")},
                     !.installs = {n \in {"sandstone-cli"} : at("cliInstall")}
                                    \cup {n \in {"sandstone-template"} :
                                            at("templateInstall")}]
  /\ history' = Append(history, Ran("link", failAt))
  /\ UNCHANGED <<cliOriginalFile, templateOriginalFile, original, versionVars, devVars>>

\* unlink(), given the registry's two answers, up to the step that throws (failAt), if any
Unlink(sandstoneAnswer, cliAnswer, failAt) ==
  /\ Len(history) < MaxRuns
  /\ LET cliLinked == CliLinked(cliPkg)
         templateLinked == UnlinkTemplateLinked(templatePkg)
         sandstoneVersion == getLatestNpmVersion(sandstoneAnswer)
         cliVersion == getLatestNpmVersion(cliAnswer)
         at(step) == Attempted(UnlinkSteps, failAt, step)
     IN IF ~cliLinked /\ ~templateLinked
        THEN /\ failAt = "none"
             /\ sandstoneAnswer = NotOk /\ cliAnswer = NotOk
             /\ run' = [NoRun EXCEPT !.script = "unlink", !.outcome = "already"]
             /\ history' = Append(history, Ran("unlink", "none"))
             /\ UNCHANGED <<cliPkg, templatePkg>>
        ELSE IF Thrown \in {sandstoneVersion, cliVersion}
        THEN /\ failAt = "none"
             /\ run' = [NoRun EXCEPT !.script = "unlink", !.outcome = "failed",
                                     !.failedAt = "fetch"]
             /\ history' = Append(history, Ran("unlink", "fetch"))
             /\ UNCHANGED <<cliPkg, templatePkg>>
        ELSE /\ failAt = "cliInstall" => cliLinked
             /\ failAt = "templateInstall" => templateLinked
             /\ cliPkg' =
                  IF cliLinked
                  THEN [peerDependencies |->
                          SetEntry(cliPkg.peerDependencies, "sandstone", sandstoneVersion)]
                  ELSE cliPkg
             /\ templatePkg' =
                  IF templateLinked /\ at("templateInstall")
                  THEN [dependencies |->
                          RestoreEntry(templatePkg.dependencies, "sandstone",
                                       sandstoneVersion),
                        devDependencies |->
                          RestoreEntry(templatePkg.devDependencies, "sandstone-cli",
                                       cliVersion)]
                  ELSE templatePkg
             /\ run' =
                  [NoRun EXCEPT
                     !.script = "unlink",
                     !.outcome = Outcome(failAt),
                     !.failedAt = failAt,
                     !.fetched = <<sandstoneVersion, cliVersion>>,
                     !.writes = {n \in {"sandstone-cli"} : cliLinked}
                                  \cup {n \in {"sandstone-template"} :
                                          templateLinked /\ at("templateInstall")},
                     !.installs = {n \in {"sandstone-cli"} : cliLinked}
                                    \cup {n \in {"sandstone-template"} :
                                            templateLinked /\ at("templateInstall")}]
             /\ history' = Append(history, Ran("unlink", failAt))
  /\ UNCHANGED <<cliOriginalFile, templateOriginalFile, built, original, versionVars, devVars>>

\* main with any other command: the usage text and exit code 1
Usage ==
  /\ Len(history) < MaxRuns
  /\ run' = [NoRun EXCEPT !.script = "usage", !.outcome = "failed"]
  /\ history' = Append(history, Ran("usage", "command"))
  /\ UNCHANGED <<cliPkg, templatePkg, cliOriginalFile, templateOriginalFile, built,
                 original, versionVars, devVars>>

RunLink == \E failAt \in {LinkSteps[i] : i \in 1..Len(LinkSteps)} : Link(failAt)

RunUnlink ==
  \E sandstoneAnswer \in RegistryAnswers("sandstone"),
     cliAnswer \in RegistryAnswers("sandstone-cli"),
     failAt \in {UnlinkSteps[i] : i \in 1..Len(UnlinkSteps)} :
       Unlink(sandstoneAnswer, cliAnswer, failAt)

NextLink == RunLink \/ RunUnlink \/ Usage

SpecLink == InitLink /\ [][NextLink]_vars

----------------------------------------------------------------------------
(* C13, C17, C18 *)

IsFileSpecifier(value) == Len(value) > 0 /\ value[1] = "file:"

\* peerDependencies.sandstone of sandstone-cli, dependencies.sandstone and
\* devDependencies['sandstone-cli'] of sandstone-template
TrackedEntries(cli, template) ==
  <<cli.peerDependencies.entries["sandstone"],
    template.dependencies.entries["sandstone"],
    template.devDependencies.entries["sandstone-cli"]>>

AllLinked(cli, template) ==
  \A i \in 1..3 : IsFileSpecifier(TrackedEntries(cli, template)[i])

NoneLinked(cli, template) ==
  \A i \in 1..3 : ~IsFileSpecifier(TrackedEntries(cli, template)[i])

PartlyLinked(cli, template) == ~AllLinked(cli, template) /\ ~NoneLinked(cli, template)

\* the run ended without an error
Succeeded(r) == r.outcome \in {"done", "already"}

\* C13: after a successful run of unlink none of the three tracked entries starts with
\* 'file:', and after a successful run of link all three do, whatever the entries were
\* before the run.
C13_UnlinkLeavesNoneLinkLeavesAll ==
  /\ run.script = "unlink" /\ Succeeded(run) => NoneLinked(cliPkg, templatePkg)
  /\ run.script = "link" /\ Succeeded(run) => AllLinked(cliPkg, templatePkg)

\* unlink has completed from a start where only dependencies.sandstone was a file: entry
C13_Witness ==
  /\ history = <<Ran("unlink", "none")>>
  /\ run.outcome = "done"
  /\ ~IsFileSpecifier(TrackedEntries(original.cli, original.template)[1])
  /\ IsFileSpecifier(TrackedEntries(original.cli, original.template)[2])
  /\ ~IsFileSpecifier(TrackedEntries(original.cli, original.template)[3])
  /\ NoneLinked(cliPkg, templatePkg)

\* the three dependency objects, by the package and field that hold them
DependencyObjects(cli, template) ==
  <<cli.peerDependencies, template.dependencies, template.devDependencies>>

\* the version the registry gave for a dependency name in a run
FetchedFor(r, name) == IF name = "sandstone" THEN r.fetched[1] ELSE r.fetched[2]

\* C17: a run of unlink whose registry lookup fails for either package writes no
\* package.json and runs no install; in any run of unlink an entry changes only if
\* it started with 'file:', and then to the fetched ^<latest> of its package.
C17_UnlinkAllOrNothing ==
  [][run'.script = "unlink"
       => /\ run'.failedAt = "fetch"
               => /\ cliPkg' = cliPkg
                  /\ templatePkg' = templatePkg
                  /\ run'.writes = {}
                  /\ run'.installs = {}
          /\ \A i \in 1..3 :
               LET before == DependencyObjects(cliPkg, templatePkg)[i]
                   after == DependencyObjects(cliPkg', templatePkg')[i]
               IN /\ after.defined = before.defined
                  /\ \A name \in DependencyNames :
                       after.entries[name] # before.entries[name]
                         => /\ IsFileSpecifier(before.entries[name])
                            /\ run'.fetched # <<>>
                            /\ after.entries[name] = FetchedFor(run', name)
                            /\ after.entries[name] = Caret(LatestVersion(name))]_vars

\* a run of unlink failed at the lookup, and the next one rewrote dependencies.sandstone
\* and left a registry version of sandstone-cli as it was
C17_Witness ==
  /\ history = <<Ran("unlink", "fetch"), Ran("unlink", "none")>>
  /\ run.outcome = "done"
  /\ IsFileSpecifier(TrackedEntries(original.cli, original.template)[2])
  /\ templatePkg.dependencies.entries["sandstone"] = Caret("1.0.0")
  /\ templatePkg.devDependencies.entries["sandstone-cli"] = Caret("0.14.0")

NoEffects(r) ==
  /\ r.builds = {}
  /\ r.writes = {}
  /\ r.removals = {}
  /\ r.installs = {}
  /\ r.fetched = <<>>

\* C18: link on fully linked packages and unlink on fully unlinked packages report it
\* and build, write, remove, fetch and install nothing; link on partly linked packages
\* does not report "already linked" and, when no step fails, leaves all three linked.
C18_Idempotent ==
  [][/\ run'.script = "link" /\ AllLinked(cliPkg, templatePkg)
          => /\ run'.outcome = "already"
             /\ NoEffects(run')
             /\ UNCHANGED <<cliPkg, templatePkg, built>>
     /\ run'.script = "unlink" /\ NoneLinked(cliPkg, templatePkg)
          => /\ run'.outcome = "already"
             /\ NoEffects(run')
             /\ UNCHANGED <<cliPkg, templatePkg, built>>
     /\ run'.script = "link" /\ PartlyLinked(cliPkg, templatePkg)
          => /\ run'.outcome # "already"
             /\ run'.outcome = "done" => AllLinked(cliPkg', templatePkg')]_vars

\* a link run failed at the install of sandstone-cli, having rewritten only its
\* package.json, and the next link run completed the linking
C18_Witness ==
  /\ history = <<Ran("link", "cliInstall"), Ran("link", "none")>>
  /\ NoneLinked(original.cli, original.template)
  /\ run.outcome = "done"
  /\ run.writes = {"sandstone-cli", "sandstone-template"}
  /\ AllLinked(cliPkg, templatePkg)

----------------------------------------------------------------------------
(* dev() of scripts/template.ts *)

Flags == {"--library", "--help", "-h"}

parseArgs(args) ==
  [type |-> IF "--library" \in args THEN "library" ELSE "pack",
   help |-> "--help" \in args \/ "-h" \in args]

\* A line of git's output is a sequence of tokens: " " is a blank, "origin/" and
\* "upstream/" are remote prefixes, "->" is the arrow of a symbolic reference, and the
\* rest are the tokens of a branch name.
Main == <<"main">>
Library100 == <<"library", "-", "1", ".", "0", ".", "0">>
Library100Rc1 == <<"library", "-", "1", ".", "0", ".", "0", "-", "rc", ".", "1">>
PackMain == <<"pack", "-", "main">>

OriginLine(name) == <<" ", " ", "origin/">> \o name
UpstreamLine(name) == <<" ", " ", "upstream/">> \o name
HeadPointerLine == <<" ", " ", "origin/", "HEAD", " ", "->", " ", "origin/">> \o Main

\* String.prototype.trim
Trim(s) ==
  LET inked == {i \in 1..Len(s) : s[i] # " "}
  IN IF inked = {} THEN <<>>
     ELSE SubSeq(s, CHOOSE i \in inked : \A j \in inked : i <= j,
                    CHOOSE i \in inked : \A j \in inked : i >= j)

\* String.prototype.includes
Includes(s, token) == \E i \in 1..Len(s) : s[i] = token

\* stdout.toString().split('\n'): the lines, and the empty piece after the last newline
SplitLines(lines) == Append(lines, <<>>)

\* getRemoteBranches, given the exit code and the lines `git branch -r` printed
getRemoteBranches(exit, lines) ==
  IF exit # 0 THEN <<>>
  ELSE LET pieces == SplitLines(lines)
           trimmed == [i \in 1..Len(pieces) |-> Trim(pieces[i])]
           kept == SelectSeq(trimmed, LAMBDA br : br # <<>> /\ ~Includes(br, "->"))
       IN [i \in 1..Len(kept) |-> ReplaceFirst(kept[i], <<"origin/">>)]

\* getCurrentBranch, given the exit code and the line `git branch --show-current`
\* printed (empty on a detached HEAD)
getCurrentBranch(exit, line) == IF exit = 0 THEN Some(Trim(line)) ELSE Null

\* findLatestBranch: the values it can return
findLatestBranch(list, pfx) ==
  LET filtered == FilterBranches(list, pfx)
  IN IF Len(filtered) = 0 THEN {Null}
     ELSE {Some(first) : first \in SortedHeads(filtered, pfx)}

\* faulty variant: the branches are never taken to be the same
SameBranchNever(current, target) == FALSE

\* currentBranch === targetBranch
SameBranch(current, target) == current = target

\* faulty variant: the exit code of the checkout is not looked at
CheckoutFailedNever(exit) == FALSE

\* result.exitCode !== 0
CheckoutFailed(exit) == exit # 0

ExitCodes == {0, 1}

Command(cmd, exit) == [cmd |-> cmd, exit |-> exit]

\* what `git branch -r` prints in the checkouts considered
DevRemotes ==
  { <<>>,
    <<HeadPointerLine, OriginLine(Main)>>,
    <<HeadPointerLine, OriginLine(Main), OriginLine(Pack100), OriginLine(Pack200Alpha1),
      OriginLine(Library100)>>,
    <<OriginLine(Pack110Beta2), OriginLine(Pack100), OriginLine(Library100Rc1),
      OriginLine(Library100), UpstreamLine(Pack200Alpha1)>>,
    <<OriginLine(PackMain), OriginLine(Pack100)>> }

\* the branch checked out before the run; the empty name is a detached HEAD
DevHeads == {<<>>, Main, Pack100, Pack200Alpha1, Library100}

InitDev ==
  /\ argv \in SUBSET Flags
  /\ templateDirExists \in BOOLEAN
  /\ remote \in DevRemotes
  /\ checkedOut \in DevHeads
  /\ bunLock \in BOOLEAN
  /\ nodeModules \in BOOLEAN
  /\ position = "start"
  /\ type = "pack"
  /\ targetBranch = Null
  /\ currentBranch = Null
  /\ commands = <<>>
  /\ exitCode = 0
  /\ printedReady = FALSE
  /\ VersionsIdle
  /\ PackagesIdle

\* process.exit(code)
Exit(code) == position' = "exited" /\ exitCode' = code

\* parseArgs, the help switch and the test for the template directory
Start ==
  /\ position = "start"
  /\ type' = parseArgs(argv).type
  /\ IF parseArgs(argv).help THEN Exit(0)
     ELSE IF ~templateDirExists THEN Exit(1)
     ELSE position' = "fetch" /\ UNCHANGED exitCode
  /\ UNCHANGED <<argv, templateDirExists, remote, checkedOut, bunLock, nodeModules,
                 targetBranch, currentBranch, commands, printedReady>>
  /\ UNCHANGED <<versionVars, packageVars>>

\* git fetch --prune: its exit code is not looked at
Fetch(exit, lines) ==
  /\ position = "fetch"
  /\ commands' = Append(commands, Command("git fetch --prune", exit))
  /\ remote' = IF exit = 0 THEN lines ELSE remote
  /\ position' = "branches"
  /\ UNCHANGED <<argv, templateDirExists, checkedOut, bunLock, nodeModules, type,
                 targetBranch, currentBranch, exitCode, printedReady>>
  /\ UNCHANGED <<versionVars, packageVars>>

\* getRemoteBranches, findLatestBranch and the test for a missing target
SelectTarget(exit) ==
  /\ position = "branches"
  /\ commands' = Append(commands, Command("git branch -r", exit))
  /\ \E target \in findLatestBranch(getRemoteBranches(exit, remote), type) :
       /\ targetBranch' = target
       /\ IF target.isNull THEN Exit(1)
          ELSE position' = "current" /\ UNCHANGED exitCode
  /\ UNCHANGED <<argv, templateDirExists, remote, checkedOut, bunLock, nodeModules,
                 type, currentBranch, printedReady>>
  /\ UNCHANGED <<versionVars, packageVars>>

\* getCurrentBranch and the comparison with the target
ReadCurrent(exit) ==
  /\ position = "current"
  /\ commands' = Append(commands, Command("git branch --show-current", exit))
  /\ currentBranch' = getCurrentBranch(exit, checkedOut)
  /\ position' = IF SameBranch(currentBranch', targetBranch) THEN "install" ELSE "reset"
  /\ UNCHANGED <<argv, templateDirExists, remote, checkedOut, bunLock, nodeModules,
                 type, targetBranch, exitCode, printedReady>>
  /\ UNCHANGED <<versionVars, packageVars>>

\* git reset --hard: its exit code is not looked at
Reset(exit) ==
  /\ position = "reset"
  /\ commands' = Append(commands, Command("git reset --hard", exit))
  /\ position' = "clean"
  /\ UNCHANGED <<argv, templateDirExists, remote, checkedOut, bunLock, nodeModules,
                 type, targetBranch, currentBranch, exitCode, printedReady>>
  /\ UNCHANGED <<versionVars, packageVars>>

\* git clean -fdx: its exit code is not looked at; it removes node_modules, and a
\* failing run may or may not have got that far
Clean(exit, removed) ==
  /\ position = "clean"
  /\ exit = 0 => removed
  /\ commands' = Append(commands, Command("git clean -fdx", exit))
  /\ nodeModules' = (nodeModules /\ ~removed)
  /\ position' = "checkout"
  /\ UNCHANGED <<argv, templateDirExists, remote, checkedOut, bunLock, type,
                 targetBranch, currentBranch, exitCode, printedReady>>
  /\ UNCHANGED <<versionVars, packageVars>>

\* git checkout <targetBranch>: the target's tree may or may not hold a bun.lock
Checkout(exit, lock) ==
  /\ position = "checkout"
  /\ exit # 0 => lock = bunLock
  /\ commands' = Append(commands, Command("git checkout", exit))
  /\ checkedOut' = IF exit = 0 THEN targetBranch.name ELSE checkedOut
  /\ bunLock' = lock
  /\ IF CheckoutFailed(exit) THEN Exit(1)
     ELSE position' = "install" /\ UNCHANGED exitCode
  /\ UNCHANGED <<argv, templateDirExists, remote, nodeModules, type, targetBranch,
                 currentBranch, printedReady>>
  /\ UNCHANGED <<versionVars, packageVars>>

\* bun install, which throws on failure into the catch of dev(), and bun pm trust
\* --all, whose exit code is not looked at
Install(exit, trustExit) ==
  /\ position = "install"
  /\ IF bunLock /\ ~nodeModules
     THEN IF exit # 0
          THEN /\ trustExit = 0
               /\ commands' = Append(commands, Command("bun install", exit))
               /\ Exit(1)
               /\ UNCHANGED nodeModules
          ELSE /\ commands' = commands \o <<Command("bun install", exit),
                                            Command("bun pm trust --all", trustExit)>>
               /\ nodeModules' = TRUE
               /\ position' = "ready"
               /\ UNCHANGED exitCode
     ELSE /\ exit = 0 /\ trustExit = 0
          /\ position' = "ready"
          /\ UNCHANGED <<commands, nodeModules, exitCode>>
  /\ UNCHANGED <<argv, templateDirExists, remote, checkedOut, bunLock, type,
                 targetBranch, currentBranch, printedReady>>
  /\ UNCHANGED <<versionVars, packageVars>>

\* console.log('Ready!') and the end of dev()
Ready ==
  /\ position = "ready"
  /\ printedReady' = TRUE
  /\ Exit(0)
  /\ UNCHANGED <<argv, templateDirExists, remote, checkedOut, bunLock, nodeModules,
                 type, targetBranch, currentBranch, commands>>
  /\ UNCHANGED <<versionVars, packageVars>>

NextDev ==
  \/ Start
  \/ \E exit \in ExitCodes, lines \in DevRemotes : Fetch(exit, lines)
  \/ \E exit \in ExitCodes : SelectTarget(exit)
  \/ \E exit \in ExitCodes : ReadCurrent(exit)
  \/ \E exit \in ExitCodes : Reset(exit)
  \/ \E exit \in ExitCodes, removed \in BOOLEAN : Clean(exit, removed)
  \/ \E exit \in ExitCodes, lock \in BOOLEAN : Checkout(exit, lock)
  \/ \E exit \in ExitCodes, trustExit \in ExitCodes : Install(exit, trustExit)
  \/ Ready

SpecDev == InitDev /\ [][NextDev]_vars

----------------------------------------------------------------------------
(* C14, C15, C16 *)

Exited == position = "exited"

\* the positions of a command in the commands the run has made
PositionsOf(cmd) == {i \in 1..Len(commands) : commands[i].cmd = cmd}

HasRun(cmd) == PositionsOf(cmd) # {}

HasFailed(cmd) == \E i \in PositionsOf(cmd) : commands[i].exit # 0

\* the subprocesses whose failure is to end the run
SurfacedCommands ==
  {"git fetch --prune", "git branch -r", "git reset --hard", "git clean -fdx",
   "git checkout", "bun install"}

\* C14: when git fetch, git branch -r, git reset, git clean, git checkout or bun
\* install has failed, 'Ready!' is not printed and the run ends with a non-zero exit
\* code; and no command is run twice.
C14_EveryFailureEndsNonZero ==
  /\ \A cmd \in SurfacedCommands :
       HasFailed(cmd) => /\ ~printedReady
                         /\ Exited => exitCode # 0
  /\ \A i, j \in 1..Len(commands) : commands[i].cmd = commands[j].cmd => i = j

DestructiveCommands == {"git reset --hard", "git clean -fdx", "git checkout"}

\* the step runs a command
Runs(cmd) == commands' = Append(commands, Command(cmd, 0))
               \/ commands' = Append(commands, Command(cmd, 1))

LastCommand == commands[Len(commands)].cmd

\* the step ends the process
Exits == position # "exited" /\ position' = "exited"

\* the template type the command line asks for
RequestedType == IF "--library" \in argv THEN "library" ELSE "pack"

HelpRequested == "--help" \in argv \/ "-h" \in argv

\* reset, clean and checkout run in this order, each right after the one before
DestructiveOrder ==
  /\ Runs("git clean -fdx") => commands # <<>> /\ LastCommand = "git reset --hard"
  /\ Runs("git checkout") => commands # <<>> /\ LastCommand = "git clean -fdx"
  /\ Runs("git reset --hard") => \A cmd \in DestructiveCommands : ~HasRun(cmd)

\* the run ends for want of a target: `git branch -r` has run and no branch was selected
ExitsWithoutTarget == Exits /\ Runs("git branch -r") /\ targetBranch'.isNull

\* C15 as stated: reset, clean and checkout run only if the template directory exists,
\* a target was selected and the checked-out branch is not the target, and in that
\* order; a run that finds the directory missing or no branch of the type ends with
\* exit code 1 before any of the three.
C15_GuardedAndOrdered ==
  [][/\ (\E cmd \in DestructiveCommands : Runs(cmd))
          => /\ templateDirExists
             /\ ~targetBranch.isNull
             /\ Runs("git reset --hard") => checkedOut # targetBranch.name
     /\ DestructiveOrder
     /\ Exits /\ (~templateDirExists \/ ExitsWithoutTarget)
          => /\ exitCode' = 1
             /\ \A cmd \in DestructiveCommands : ~HasRun(cmd)']_vars

\* C15, amended: reset, clean and checkout run only if the template directory exists,
\* a target was selected and `git branch --show-current` did not report the target
\* (a failed report is no report of the target), and in that order; a run without
\* --help or -h that finds the directory missing or no branch of the type ends with
\* exit code 1 before any of the three.
C15_GuardedByReportedBranch ==
  [][/\ (\E cmd \in DestructiveCommands : Runs(cmd))
          => /\ templateDirExists
             /\ ~targetBranch.isNull
             /\ currentBranch # targetBranch
             /\ HasRun("git branch --show-current")
     /\ DestructiveOrder
     /\ Exits /\ ~HelpRequested /\ (~templateDirExists \/ ExitsWithoutTarget)
          => /\ exitCode' = 1
             /\ \A cmd \in DestructiveCommands : ~HasRun(cmd)'
     /\ Exits /\ HelpRequested => exitCode' = 0 /\ commands' = <<>>]_vars

\* reset, clean and checkout have run, in this order, away from another branch
C15_Witness ==
  /\ Len(commands) >= 3
  /\ SubSeq(commands, Len(commands) - 2, Len(commands))
       = <<Command("git reset --hard", 0), Command("git clean -fdx", 0),
           Command("git checkout", 0)>>
  /\ currentBranch = Some(Main)
  /\ targetBranch = Some(Pack200Alpha1)
  /\ checkedOut = Pack200Alpha1

\* C16: when 'Ready!' has been printed, the checked-out branch is the branch
\* findLatestBranch selects among the remote branches for the requested type, and it
\* was either reported as current or checked out with exit code 0; a failed checkout
\* ends the run with exit code 1, no install and no 'Ready!'.
C16_ReadyOnLatestBranch ==
  /\ printedReady
       => /\ ~targetBranch.isNull
          /\ targetBranch \in findLatestBranch(getRemoteBranches(0, remote), RequestedType)
          /\ checkedOut = targetBranch.name
          /\ \/ currentBranch = targetBranch /\ ~HasRun("git checkout")
             \/ Command("git checkout", 0) \in {commands[i] : i \in 1..Len(commands)}
  /\ HasFailed("git checkout")
       => /\ Exited
          /\ exitCode = 1
          /\ ~HasRun("bun install")
          /\ ~printedReady

\* 'Ready!' after a checkout of the latest library branch, asked for with --library
C16_Witness ==
  /\ printedReady
  /\ argv = {"--library"}
  /\ HasRun("git checkout")
  /\ HasRun("bun install")
  /\ checkedOut = Library100

====
